---- MODULE Spec2Model ----
(***************************************************************************)
(* A model of the ambient WAV generator of src/cli/src/lib.rs: the         *)
(* parameter record, Generator::new, the per-sample loop of                *)
(* Generator::generate, Generator::apply_reverb, Generator::write_wav and  *)
(* Generator::run, together with the pure functions they call, and the     *)
(* conversions of CLI and JsonConfig into the parameter record; and of     *)
(* Note::as_midi_number and Chord::notes of src/core/src/lib.rs.           *)
(*                                                                         *)
(* f32 values are modelled as exact rationals <<n, d>> in lowest terms     *)
(* with d > 0, extended by the IEEE values a division by zero produces:    *)
(* PosInf = <<1, 0>>, NegInf = <<-1, 0>>, NaN = <<0, 0>>.  f32::sin is     *)
(* exact in the model at whole quarter turns, where its value is rational; *)
(* see SinTurns.                                                           *)
(***************************************************************************)
EXTENDS Integers, Sequences, FiniteSets, TLC

(***************************************************************************)
(* Bounds of the model.                                                    *)
(***************************************************************************)
\* durations range over k/40 seconds for k in -1..MaxDurTicks
MaxDurTicks == 4
\* attack and release range over k/40 seconds for k in 0..MaxRampTicks
MaxRampTicks == 2
\* the number of voices of a parameter record ranges over 0..MaxVoices
MaxVoices == 1
\* buffers handed directly to apply_reverb hold at most MaxBufLen pairs
MaxBufLen == 4
\* durations handed directly to envelope range over k * 2.5 seconds for k
\* in 1..MaxEnvTicks, times over k * 2.5 seconds for k in 0..MaxEnvTicks + 2
MaxEnvTicks == 8
\* a direct call of parse_range gets every string of up to this length
MaxStrLen == 4
\* a direct call of write_wav finds a buffer of up to this many pairs
MaxWavLen == 3
\* a direct call of synthesize goes over a bank of up to this many voices
MaxBankVoices == 2
\* a direct call of as_midi_number or of notes gets octaves -2..MaxOctave
MaxOctave == 11
\* a direct call of Generator::new builds up to this many voices
MaxSetupVoices == 2
\* the filter states of a direct call of filtered_noise are k/4 for |k| up
\* to this number
MaxFilterTicks == 2

(***************************************************************************)
(* Exact rational arithmetic standing for f32 arithmetic.                  *)
(***************************************************************************)
Abs(x) == IF x < 0 THEN -x ELSE x

RECURSIVE GCD(_, _)
GCD(a, b) == IF b = 0 THEN a ELSE GCD(b, a % b)

\* the rational n/d in lowest terms, d # 0
Rat(n, d) ==
    LET g == GCD(Abs(n), Abs(d))
        s == IF d < 0 THEN -1 ELSE 1
    IN  <<(s * n) \div g, (s * d) \div g>>

Zero == Rat(0, 1)
One == Rat(1, 1)
PosInf == <<1, 0>>
NegInf == <<-1, 0>>
NaN == <<0, 0>>
IsFinite(x) == x[2] # 0

RNeg(a) == <<-a[1], a[2]>>
RAdd(a, b) ==
    LET g == GCD(a[2], b[2])
    IN  Rat(a[1] * (b[2] \div g) + b[1] * (a[2] \div g), (a[2] \div g) * b[2])
RSub(a, b) == RAdd(a, RNeg(b))
RMul(a, b) ==
    LET g1 == GCD(Abs(a[1]), b[2])
        g2 == GCD(Abs(b[1]), a[2])
    IN  Rat((a[1] \div g1) * (b[1] \div g2), (a[2] \div g2) * (b[2] \div g1))
RLt(a, b) == a[1] * b[2] < b[1] * a[2]
RLe(a, b) == a[1] * b[2] <= b[1] * a[2]

\* f32 division: x/0 is an infinity of the sign of x, 0/0 is NaN
FDiv(a, b) ==
    IF b[1] = 0
    THEN (IF a[1] > 0 THEN PosInf ELSE IF a[1] < 0 THEN NegInf ELSE NaN)
    ELSE Rat(a[1] * b[2], a[2] * b[1])

\* f32::clamp(lo, hi): NaN stays NaN, the infinities clamp to the bounds
FClamp(x, lo, hi) ==
    IF x = NaN THEN NaN
    ELSE IF x = PosInf THEN hi
    ELSE IF x = NegInf THEN lo
    ELSE IF RLt(x, lo) THEN lo
    ELSE IF RLt(hi, x) THEN hi
    ELSE x

\* floor of a rational, and truncation toward zero
RFloor(a) == a[1] \div a[2]
RTrunc(a) == IF a[1] >= 0 THEN a[1] \div a[2] ELSE -((-a[1]) \div a[2])
\* f32::round: to the nearest integer, halves away from zero
RRound(a) ==
    IF a[1] >= 0 THEN (2 * a[1] + a[2]) \div (2 * a[2])
    ELSE -((2 * (-a[1]) + a[2]) \div (2 * a[2]))

\* `x as u32` / `x as usize` for an f32 x: truncates toward zero, saturates
\* at 0 for negative values and NaN (the upper saturation at u32::MAX is
\* beyond every value of the model, which has no +infinity at this cast)
AsU32(x) ==
    IF ~IsFinite(x) \/ x[1] < 0 THEN 0
    ELSE RTrunc(x)
(***************************************************************************)
(* f32::sin.  The argument is given in turns (the code's argument divided  *)
(* by 2*PI).  At whole quarter turns the value is rational and the model   *)
(* is exact: 0, 1, 0, -1.  Elsewhere the true value is irrational; the     *)
(* model takes the value at the nearest quarter turn.                      *)
(***************************************************************************)
SinTurns(p) ==
    LET q == RRound(RMul(Rat(4, 1), p)) % 4
    IN  CASE q = 0 -> Zero
          [] q = 1 -> One
          [] q = 2 -> Zero
          [] q = 3 -> Rat(-1, 1)

(***************************************************************************)
(* Strings are sequences of one-character strings.                         *)
(***************************************************************************)
Digits == {"0", "1", "2", "3", "4", "5", "6", "7", "8", "9"}
DigitVal(c) ==
    CASE c = "0" -> 0 [] c = "1" -> 1 [] c = "2" -> 2 [] c = "3" -> 3
      [] c = "4" -> 4 [] c = "5" -> 5 [] c = "6" -> 6 [] c = "7" -> 7
      [] c = "8" -> 8 [] c = "9" -> 9

RECURSIVE Pow10(_)
Pow10(k) == IF k = 0 THEN 1 ELSE 10 * Pow10(k - 1)

\* the number a sequence of digits and dots denotes when the dots are dropped
RECURSIVE DigitsVal(_)
DigitsVal(s) ==
    IF s = <<>> THEN 0
    ELSE LET c == s[Len(s)]
             front == SubSeq(s, 1, Len(s) - 1)
         IN  IF c = "." THEN DigitsVal(front)
             ELSE 10 * DigitsVal(front) + DigitVal(c)

\* str::parse::<f32>() on the decimal forms of the model's alphabet: an
\* optional '-', digits with at most one '.', at least one digit.
\* The result is [ok, val]; val is meaningful only when ok.
ParseF32(s) ==
    LET neg == s # <<>> /\ s[1] = "-"
        body == IF neg THEN Tail(s) ELSE s
        dots == {k \in 1..Len(body) : body[k] = "."}
        wellformed == /\ \A k \in 1..Len(body) : body[k] \in Digits \cup {"."}
                      /\ Cardinality(dots) <= 1
                      /\ \E k \in 1..Len(body) : body[k] \in Digits
        fracLen == IF dots = {} THEN 0
                   ELSE Len(body) - (CHOOSE k \in dots : TRUE)
    IN  IF wellformed
        THEN [ok |-> TRUE,
              val |-> Rat((IF neg THEN -1 ELSE 1) * DigitsVal(body), Pow10(fracLen))]
        ELSE [ok |-> FALSE, val |-> Zero]

\* str::split(':') collected into a Vec: always at least one part
RECURSIVE SplitColon(_)
SplitColon(s) ==
    IF \A k \in 1..Len(s) : s[k] # ":" THEN <<s>>
    ELSE LET k == CHOOSE j \in 1..Len(s) :
                      s[j] = ":" /\ \A h \in 1..(j - 1) : s[h] # ":"
         IN  <<SubSeq(s, 1, k - 1)>> \o SplitColon(SubSeq(s, k + 1, Len(s)))

\* parse_range falling back to both defaults as soon as one component is
\* absent or does not parse
parse_range_WholeFallback(s, default_min, default_max) ==
    LET parts == SplitColon(s)
    IN  IF Len(parts) >= 2 /\ ParseF32(parts[1]).ok /\ ParseF32(parts[2]).ok
        THEN <<ParseF32(parts[1]).val, ParseF32(parts[2]).val>>
        ELSE <<default_min, default_max>>

\* Generator::parse_range
parse_range(s, default_min, default_max) ==
    LET parts == SplitColon(s)
        p0 == ParseF32(parts[1])
        min == IF p0.ok THEN p0.val ELSE default_min
        max == IF Len(parts) >= 2 /\ ParseF32(parts[2]).ok
               THEN ParseF32(parts[2]).val ELSE default_max
    IN  <<min, max>>

\* the character of a digit
DigitChar(k) == CHOOSE c \in Digits : DigitVal(c) = k

\* the decimal digits of a natural number, "0" for 0
RECURSIVE NatStr(_)
NatStr(n) ==
    IF n < 10 THEN <<DigitChar(n)>>
    ELSE NatStr(n \div 10) \o <<DigitChar(n % 10)>>

\* the digits after the decimal point of r / d, for 0 <= r < d and d a
\* divisor of a power of ten
RECURSIVE FracStr(_, _)
FracStr(r, d) ==
    IF r = 0 THEN <<>>
    ELSE <<DigitChar((10 * r) \div d)>> \o FracStr((10 * r) % d, d)

\* format!("{}", x) for a finite f32 whose value is a decimal fraction:
\* the shortest decimal form, without ".0" for a whole number ("1", "0.05")
FormatF32(x) ==
    LET n == Abs(x[1])
        frac == FracStr(n % x[2], x[2])
    IN  (IF x[1] < 0 THEN <<"-">> ELSE <<>>)
            \o NatStr(n \div x[2])
            \o (IF frac = <<>> THEN <<>> ELSE <<".">> \o frac)

\* v4_uuid(): a fresh random identifier; the model abbreviates the 36
\* characters of a UUID to one of two tokens
Uuids == { <<"u", "1">>, <<"u", "2">> }

\* generate_filename("ambient", OutputType::WAV) with the identifier u
generate_filename(u) ==
    u \o <<"_", "a", "m", "b", "i", "e", "n", "t", ".", "w", "a", "v">>

\* impl Into<GeneratorParams> for JsonConfig, with u the identifier drawn;
\* an Option is a sequence of length 0 (None) or 1 (Some)
JsonConfigInto(config, u) ==
    [ filename |-> IF config.output # <<>>
                   THEN u \o <<"_">> \o config.output[1]
                   ELSE generate_filename(u),
      sample_rate |-> config.sample_rate,
      duration |-> config.duration,
      lfo_range |-> FormatF32(config.lfo_rate_range[1]) \o <<":">>
                        \o FormatF32(config.lfo_rate_range[2]),
      mod_depth_range |-> FormatF32(config.mod_depth_range[1]) \o <<":">>
                              \o FormatF32(config.mod_depth_range[2]),
      voices |-> config.voices,
      base_freq |-> config.base_freq,
      noise_level |-> config.noise_level,
      attack |-> config.attack,
      release |-> config.release,
      reverb_mix |-> config.reverb_mix ]

\* impl Into<GeneratorParams> for CLI, with u the identifier drawn
CliInto(cli, u) ==
    [ filename |-> IF cli.output # <<>> THEN cli.output[1]
                   ELSE generate_filename(u),
      sample_rate |-> cli.sample_rate,
      duration |-> cli.duration,
      lfo_range |-> cli.lfo_rate_range,
      mod_depth_range |-> cli.mod_depth_range,
      voices |-> cli.voices,
      base_freq |-> cli.base_freq,
      noise_level |-> cli.noise_level,
      attack |-> cli.attack,
      release |-> cli.release,
      reverb_mix |-> cli.reverb_mix ]

\* JsonConfig::from_file on a path whose file is unreadable, is no JSON of
\* a JsonConfig, or holds the configuration file.config
from_file(file) ==
    CASE file.kind = "unreadable" -> [ok |-> FALSE, err |-> "IoError", config |-> <<>>]
      [] file.kind = "malformed" -> [ok |-> FALSE, err |-> "JsonError", config |-> <<>>]
      [] file.kind = "json" -> [ok |-> TRUE, err |-> "none", config |-> <<file.config>>]

\* CLI::to_params with the command line values always winning
to_params_CliWins(cli, file, u) ==
    [ok |-> TRUE, err |-> "none", params |-> <<CliInto(cli, u)>>]

\* CLI::to_params: Result<GeneratorParams, ConfigError>; file is the file
\* at the config path, u the identifier drawn
to_params(cli, file, u) ==
    IF cli.config # <<>>
    THEN LET r == from_file(file)
         IN  IF r.ok
             THEN [ok |-> TRUE, err |-> "none",
                   params |-> <<JsonConfigInto(r.config[1], u)>>]
             ELSE [ok |-> FALSE, err |-> r.err, params |-> <<>>]
    ELSE [ok |-> TRUE, err |-> "none", params |-> <<CliInto(cli, u)>>]

(***************************************************************************)
(* The music theory types of src/core/src/lib.rs.  Integer arithmetic      *)
(* keeps its width: an i8 or u8 operation that overflows panics in a build *)
(* with overflow checks (the default of debug builds) and wraps in a build *)
(* without them (the default of release builds).                           *)
(***************************************************************************)
InI8(x) == x >= -128 /\ x <= 127
I8Wrap(x) == ((x + 128) % 256) - 128
InU8(x) == x >= 0 /\ x <= 255
U8Wrap(x) == x % 256

PitchClasses == {"C", "Cs", "D", "Ds", "E", "F", "Fs", "G", "Gs", "A", "As", "B"}

\* impl Into<u8> for &PitchClass, PitchClass::midi_base
midi_base(pitch_cls) ==
    CASE pitch_cls = "C" -> 0 [] pitch_cls = "Cs" -> 1 [] pitch_cls = "D" -> 2
      [] pitch_cls = "Ds" -> 3 [] pitch_cls = "E" -> 4 [] pitch_cls = "F" -> 5
      [] pitch_cls = "Fs" -> 6 [] pitch_cls = "G" -> 7 [] pitch_cls = "Gs" -> 8
      [] pitch_cls = "A" -> 9 [] pitch_cls = "As" -> 10 [] pitch_cls = "B" -> 11

\* impl From<u8> for PitchClass: 0 and every value above 11 give C
PitchClassFrom(value) ==
    CASE value = 1 -> "Cs" [] value = 2 -> "D" [] value = 3 -> "Ds"
      [] value = 4 -> "E" [] value = 5 -> "F" [] value = 6 -> "Fs"
      [] value = 7 -> "G" [] value = 8 -> "Gs" [] value = 9 -> "A"
      [] value = 10 -> "As" [] value = 11 -> "B" [] OTHER -> "C"

\* impl Into<u8> for Note, Note::as_midi_number: (octave + 1) * 12 is
\* computed in i8 and only then widened to i16; the sum is cast to u8, which
\* truncates.  checks says whether the build has overflow checks.  The
\* result tells whether the call panicked, whether an 8-bit operation
\* wrapped, and the value returned.
as_midi_number(note, checks) ==
    LET next == note.octave + 1
        scaled == I8Wrap(next) * 12
        overflowed == ~InI8(next) \/ ~InI8(scaled)
        sum == midi_base(note.pitch_cls) + I8Wrap(scaled)
    IN  IF overflowed /\ checks
        THEN [panicked |-> TRUE, overflowed |-> TRUE, value |-> 0]
        ELSE [panicked |-> FALSE, overflowed |-> overflowed,
              value |-> U8Wrap(sum)]

\* ChordKind::intervals; a kind is a record of its tag and, for Custom, of
\* the intervals it carries
intervals(kind) ==
    CASE kind.tag = "Major" -> <<0, 4, 7>>
      [] kind.tag = "Minor" -> <<0, 3, 7>>
      [] kind.tag = "Diminished" -> <<0, 3, 6>>
      [] kind.tag = "Augmented" -> <<0, 4, 8>>
      [] kind.tag = "Major7" -> <<0, 4, 7, 11>>
      [] kind.tag = "Minor7" -> <<0, 3, 7, 10>>
      [] kind.tag = "Dominant7" -> <<0, 4, 7, 10>>
      [] kind.tag = "Custom" -> kind.custom

\* the closure of Chord::notes for one interval: root_midi + interval in
\* u8, the octave change in i8, the new octave in i8
ChordNote(root, root_midi, interval) ==
    LET sum == root_midi + interval
        new_midi == U8Wrap(sum)
        octave_change == (new_midi \div 12) - (root_midi \div 12)
        new_octave == root.octave + octave_change
    IN  [ overflowed |-> ~InU8(sum) \/ ~InI8(new_octave),
          note |-> [pitch_cls |-> PitchClassFrom(new_midi % 12),
                    octave |-> I8Wrap(new_octave)] ]

\* Chord::notes: whether the call panicked and the notes it returned
notes(chord, checks) ==
    LET root == as_midi_number(chord.root, checks)
        ivs == intervals(chord.kind)
        each == [k \in 1..Len(ivs) |-> ChordNote(chord.root, root.value, ivs[k])]
    IN  IF root.panicked \/ (checks /\ \E k \in 1..Len(ivs) : each[k].overflowed)
        THEN [panicked |-> TRUE, notes |-> <<>>]
        ELSE [panicked |-> FALSE,
              notes |-> [k \in 1..Len(ivs) |-> each[k].note]]
(***************************************************************************)
(* The random source.  rng.random_range(lo..hi) draws from the half-open   *)
(* range [lo, hi) and panics when the range is empty (lo >= hi).  A draw   *)
(* is lo + q * (hi - lo) for a q in [0, 1); the model takes q from         *)
(* Quantiles.                                                              *)
(***************************************************************************)
RangeIsEmpty(lo, hi) == ~RLt(lo, hi)
Quantiles == {Zero, Rat(1, 2)}
RandomRange(lo, hi, q) == RAdd(lo, RMul(q, RSub(hi, lo)))

(***************************************************************************)
(* GeneratorParams, and the pure functions of Generator and Voice.         *)
(* A parameter record p has the fields of GeneratorParams; filename plays  *)
(* no part in the numeric pipeline and is left out.                        *)
(***************************************************************************)
\* GeneratorParams::num_samples
NumSamples(p) == AsU32(RMul(p.duration, Rat(p.sample_rate, 1)))

\* envelope with `time <= attack` in place of `time < attack`
envelope_LeAttack(p, time) ==
    FClamp(IF RLe(time, p.attack)
           THEN FDiv(time, p.attack)
           ELSE IF RLt(RSub(p.duration, p.release), time)
                THEN FDiv(RSub(p.duration, time), p.release)
                ELSE One,
           Zero, One)

\* envelope with a sustain level of one half
envelope_HalfSustain(p, time) ==
    FClamp(IF RLt(time, p.attack)
           THEN FDiv(time, p.attack)
           ELSE IF RLt(RSub(p.duration, p.release), time)
                THEN FDiv(RSub(p.duration, time), p.release)
                ELSE Rat(1, 2),
           Zero, One)

\* envelope without the trailing clamp
envelope_Unclamped(p, time) ==
    IF RLt(time, p.attack)
    THEN FDiv(time, p.attack)
    ELSE IF RLt(RSub(p.duration, p.release), time)
         THEN FDiv(RSub(p.duration, time), p.release)
         ELSE One

\* envelope testing the release window before the attack window
envelope_ReleaseFirst(p, time) ==
    FClamp(IF RLt(RSub(p.duration, p.release), time)
           THEN FDiv(RSub(p.duration, time), p.release)
           ELSE IF RLt(time, p.attack)
                THEN FDiv(time, p.attack)
                ELSE One,
           Zero, One)

\* Generator::envelope; the trailing .clamp(0.0, 1.0) applies to the value
\* of the whole if / else if / else expression
envelope(p, time) ==
    FClamp(IF RLt(time, p.attack)
           THEN FDiv(time, p.attack)
           ELSE IF RLt(RSub(p.duration, p.release), time)
                THEN FDiv(RSub(p.duration, time), p.release)
                ELSE One,
           Zero, One)

\* synthesize with a cosine as the tone: the sine a quarter turn ahead
synthesize_Cosine(voice, t) ==
    LET mod_env == RAdd(RMul(SinTurns(RMul(voice.lfo_rate, t)), Rat(1, 2)), Rat(1, 2))
        sample == RMul(SinTurns(RAdd(RMul(voice.freq, t), Rat(1, 4))),
                       RMul(mod_env, voice.mod_depth))
        pan == SinTurns(RMul(voice.pan_rate, t))
        l_gain == RMul(RSub(One, pan), Rat(1, 2))
        r_gain == RMul(RAdd(One, pan), Rat(1, 2))
    IN  <<RMul(sample, l_gain), RMul(sample, r_gain)>>

\* Voice::synthesize
synthesize(voice, t) ==
    LET mod_env == RAdd(RMul(SinTurns(RMul(voice.lfo_rate, t)), Rat(1, 2)), Rat(1, 2))
        sample == RMul(SinTurns(RMul(voice.freq, t)), RMul(mod_env, voice.mod_depth))
        pan == SinTurns(RMul(voice.pan_rate, t))
        l_gain == RMul(RSub(One, pan), Rat(1, 2))
        r_gain == RMul(RAdd(One, pan), Rat(1, 2))
    IN  <<RMul(sample, l_gain), RMul(sample, r_gain)>>

\* the sum of the voice contributions of the loop `for voice in &self.voices`
RECURSIVE VoiceSum(_, _)
VoiceSum(vs, t) ==
    IF vs = <<>> THEN <<Zero, Zero>>
    ELSE LET rest == VoiceSum(SubSeq(vs, 1, Len(vs) - 1), t)
             g == synthesize(vs[Len(vs)], t)
         IN  <<RAdd(rest[1], g[1]), RAdd(rest[2], g[2])>>

\* Generator::noise, u the draw of rng.random_range(-1.0..1.0)
noise(p, u) == RMul(u, p.noise_level)

\* Generator::burst_env
burst_env(t) == RAdd(RMul(SinTurns(RMul(Rat(10, 1), t)), Rat(1, 2)), Rat(1, 2))

\* Generator::granular_noise
granular_noise(p, time, u) ==
    RMul(RMul(RMul(u, p.noise_level), Rat(1, 2)), burst_env(time))

\* Generator::filtered_noise: the new filter state of one channel, which is
\* also the value returned for the channel
FilterA == Rat(1, 10)
\* the input w of the filter: the draw u of (-1, 1) scaled
FilterInput(p, u) == RMul(RMul(u, p.noise_level), Rat(3, 10))

\* filtered_noise with the input scaled by 3 in place of 0.3
filtered_noise_Loud(p, prev, u) ==
    LET w == RMul(RMul(u, p.noise_level), Rat(3, 1))
    IN  RAdd(RMul(FilterA, w), RMul(RSub(One, FilterA), prev))

\* filtered_noise with the old state unweighted: A * w + prev
filtered_noise_Unweighted(p, prev, u) ==
    RAdd(RMul(FilterA, FilterInput(p, u)), prev)

filtered_noise(p, prev, u) ==
    LET w == FilterInput(p, u)
    IN  RAdd(RMul(FilterA, w), RMul(RSub(One, FilterA), prev))

\* Generator::mutate: adds value to both channels
mutate(left, right, value) == <<RAdd(left, value), RAdd(right, value)>>

\* the stereo pair one iteration of the loop of Generator::generate pushes,
\* given the voices' sum vs, the three draws u1, u2, u3 and the filter state
GenerateSample(p, vsum, t, u1, u2, u3, prev_l, prev_r) ==
    LET a == mutate(vsum[1], vsum[2], noise(p, u1))
        b == mutate(a[1], a[2], granular_noise(p, t, u2))
        l_filt == filtered_noise(p, prev_l, u3)
        r_filt == filtered_noise(p, prev_r, u3)
        env == envelope(p, t)
    IN  mutate(RAdd(b[1], l_filt), RAdd(b[2], r_filt), env)

\* the reverb arithmetic of one channel of Generator::apply_reverb
ReverbFb == Rat(7, 10)
\* the mix with the dry and the wet weights exchanged
ReverbOut_Swapped(p, dry, wet) ==
    RAdd(RMul(dry, p.reverb_mix), RMul(wet, RSub(One, p.reverb_mix)))
ReverbOut(p, dry, wet) ==
    RAdd(RMul(dry, RSub(One, p.reverb_mix)), RMul(wet, p.reverb_mix))
ReverbFeed(dry, wet) == RAdd(dry, RMul(wet, ReverbFb))

\* delay of Generator::apply_reverb: (0.05 * sr as f32) as usize
ReverbDelay(p) == AsU32(RMul(Rat(1, 20), Rat(p.sample_rate, 1)))
\* one channel of the conversion of Generator::write_wav:
\* (x * i16::MAX as f32).clamp(i16::MIN as f32, i16::MAX as f32) as i16
I16Max == 32767
I16Min == -32768
\* <<q, r>> with n * k = q * d + r and 0 <= r < d, for 0 <= n < d, by
\* doubling, so that no intermediate value exceeds 2 * d
RECURSIVE MulDiv(_, _, _)
MulDiv(n, k, d) ==
    IF k = 0 THEN <<0, 0>>
    ELSE LET h == MulDiv(n, k \div 2, d)
             r2 == 2 * h[2]
             r3 == (r2 % d) + (IF k % 2 = 1 THEN n ELSE 0)
         IN  <<2 * h[1] + (r2 \div d) + (r3 \div d), r3 % d>>
\* the conversion without the clamp
ToPcm_Unclamped(x) ==
    IF ~IsFinite(x) THEN 0 ELSE RTrunc(RMul(x, Rat(I16Max, 1)))

\* the conversion with the amplitude of 8-bit samples, i8::MAX
ToPcm_I8Amp(x) ==
    IF ~IsFinite(x) THEN 0
    ELSE RTrunc(FClamp(RMul(x, Rat(127, 1)), Rat(I16Min, 1), Rat(I16Max, 1)))

ToPcm(x) ==
    IF x = NaN THEN 0
    ELSE IF x = PosInf THEN I16Max
    ELSE IF x = NegInf THEN I16Min
    ELSE LET a == Abs(x[1])
             whole == a \div x[2]
         IN  IF whole >= 2 THEN (IF x[1] > 0 THEN I16Max ELSE I16Min)
             ELSE LET v == whole * I16Max + MulDiv(a % x[2], I16Max, x[2])[1]
                      t == IF x[1] >= 0 THEN v ELSE -v
                  IN  IF t > I16Max THEN I16Max
                      ELSE IF t < I16Min THEN I16Min ELSE t

(***************************************************************************)
(* State.                                                                  *)
(***************************************************************************)
VARIABLES
    call,           \* the function under execution: "run", "apply_reverb", ...
    pc,             \* the position of the execution
    params,         \* Generator.params (before Generator::new: its argument)
    voices,         \* Generator.voices
    num_samples,    \* Generator.num_samples
    samples,        \* Generator.samples
    filter_prev_l,  \* Generator.filter_prev_l
    filter_prev_r,  \* Generator.filter_prev_r
    i,              \* generate: the loop index
    delay,          \* apply_reverb: delay
    buf_l,          \* apply_reverb: buf_l
    buf_r,          \* apply_reverb: buf_r
    idx,            \* apply_reverb: idx
    pos,            \* apply_reverb: the number of samples the iterator has yielded
    writer,         \* write_wav: the WavWriter, "none", "open" or "finalized"
    wpos,           \* write_wav: the number of pairs the iterator has yielded
    written,        \* the PCM values the writer has accepted, in order
    result,         \* what run returned: "none" (not yet), "Ok" or "Err"
    error,          \* the operation whose hound::Error the call returned
    time,           \* envelope: the argument
    env_out,        \* envelope: the value returned (once pc = "done")
    arg,            \* a direct call of another function: its arguments
    ret,            \* a direct call of another function: the value returned
    dry,            \* history: the sample buffer as apply_reverb found it
    wet_log,        \* history: the wet pair apply_reverb read for each sample
    mix_log,        \* history: the terms of each sample of generate
    phase_log       \* history: the phases entered, in order

vars == <<call, pc, params, voices, num_samples, samples, filter_prev_l,
          filter_prev_r, i, delay, buf_l, buf_r, idx, pos, writer, wpos,
          written, result, error, time, env_out, arg, ret, dry, wet_log, mix_log,
          phase_log>>

genVars == <<voices, num_samples, filter_prev_l, filter_prev_r, i, mix_log>>
revVars == <<delay, buf_l, buf_r, idx, pos, dry, wet_log>>
wavVars == <<writer, wpos, written>>
(***************************************************************************)
(* Generator::new and Generator::generate_voices.                          *)
(***************************************************************************)
\* the ranges generate_voices parses, with the defaults it passes
LfoRange(p) == parse_range(p.lfo_range, Rat(1, 20), Rat(1, 5))
DepthRange(p) == parse_range(p.mod_depth_range, Rat(1, 2), One)

\* whether a draw of generate_voices panics on an empty range; the closure
\* runs once per voice, so with no voices nothing is drawn
GenerateVoicesPanics(p) ==
    /\ p.voices > 0
    /\ \/ RangeIsEmpty(LfoRange(p)[1], LfoRange(p)[2])
       \/ RangeIsEmpty(DepthRange(p)[1], DepthRange(p)[2])

\* the voices one run of the closure of generate_voices can build; the
\* model uses one quantile for the four draws of a voice
VoiceDraws(p) ==
    { [freq |-> RMul(p.base_freq, RandomRange(Rat(4, 5), Rat(6, 5), q)),
       lfo_rate |-> RandomRange(LfoRange(p)[1], LfoRange(p)[2], q),
       mod_depth |-> RandomRange(DepthRange(p)[1], DepthRange(p)[2], q),
       pan_rate |-> RandomRange(Rat(1, 100), Rat(1, 20), q)] :
        q \in Quantiles }

\* Generator::generate_voices: the vectors it can return
generate_voices(p) == [1..p.voices -> VoiceDraws(p)]

\* Generator::new: always Ok(Generator) unless generate_voices panics; the
\* parameter record is not inspected
New ==
    /\ call \in {"run", "new"} /\ pc = "new"
    /\ num_samples' = NumSamples(params)
    /\ IF GenerateVoicesPanics(params)
       THEN /\ pc' = "panicked"
            /\ UNCHANGED <<voices, phase_log>>
       ELSE /\ \E vs \in generate_voices(params) : voices' = vs
            /\ pc' = (IF call = "run" THEN "generate" ELSE "done")
            /\ phase_log' = Append(phase_log, "setup")
    /\ samples' = <<>>
    /\ filter_prev_l' = Zero
    /\ filter_prev_r' = Zero
    /\ UNCHANGED <<call, arg, ret, params, i, mix_log, result, error, time, env_out>>
    /\ UNCHANGED revVars
    /\ UNCHANGED wavVars

(***************************************************************************)
(* Generator::generate.                                                    *)
(***************************************************************************)
\* the triples (noise, granular_noise, filtered_noise) of draws of
\* rng.random_range(-1.0..1.0) one iteration can see
RngDraws ==
    { <<Rat(-1, 1), Rat(-1, 1), Rat(-1, 1)>>,
      <<Rat(1, 2), Zero, Rat(-1, 2)>> }

\* t of the loop body: i as f32 / sample_rate as f32
SampleTime(p, n) == FDiv(Rat(n, 1), Rat(p.sample_rate, 1))

\* generate drawing the voice bank anew before its loop
GenerateBegin_RedrawsVoices ==
    /\ pc = "generate"
    /\ pc' = "generate_loop"
    /\ i' = 0
    /\ phase_log' = Append(phase_log, "accumulation")
    /\ \E vs \in generate_voices(params) : voices' = vs
    /\ UNCHANGED <<call, arg, ret, params, num_samples, samples, filter_prev_l,
                   filter_prev_r, mix_log, result, error, time, env_out>>
    /\ UNCHANGED revVars
    /\ UNCHANGED wavVars

\* rand::rng(), self.samples.reserve(..)
GenerateBegin ==
    /\ pc = "generate"
    /\ pc' = "generate_loop"
    /\ i' = 0
    /\ phase_log' = Append(phase_log, "accumulation")
    /\ UNCHANGED <<call, arg, ret, params, voices, num_samples, samples, filter_prev_l,
                   filter_prev_r, mix_log, result, error, time, env_out>>
    /\ UNCHANGED revVars
    /\ UNCHANGED wavVars

\* the iteration with a draw of its own for the right channel's filter
GenerateStep_TwoDraws ==
    /\ pc = "generate_loop"
    /\ i < num_samples
    /\ \E u \in RngDraws :
        LET t == SampleTime(params, i)
            vsum == VoiceSum(voices, t)
        IN  /\ samples' = Append(samples,
                    GenerateSample(params, vsum, t, u[1], u[2], u[3],
                                   filter_prev_l, filter_prev_r))
            /\ filter_prev_l' = filtered_noise(params, filter_prev_l, u[3])
            /\ filter_prev_r' = filtered_noise(params, filter_prev_r, u[2])
            /\ mix_log' = Append(mix_log,
                    [index |-> i,
                     voice |-> vsum,
                     noise |-> noise(params, u[1]),
                     gran |-> granular_noise(params, t, u[2]),
                     filt |-> <<filtered_noise(params, filter_prev_l, u[3]),
                                filtered_noise(params, filter_prev_r, u[2])>>,
                     env |-> envelope(params, t)])
    /\ i' = i + 1
    /\ UNCHANGED <<call, arg, ret, pc, params, voices, num_samples, result, error, time,
                   env_out, phase_log>>
    /\ UNCHANGED revVars
    /\ UNCHANGED wavVars

\* one iteration of `for i in 0..self.num_samples`
GenerateStep ==
    /\ pc = "generate_loop"
    /\ i < num_samples
    /\ \E u \in RngDraws :
        LET t == SampleTime(params, i)
            vsum == VoiceSum(voices, t)
        IN  /\ samples' = Append(samples,
                    GenerateSample(params, vsum, t, u[1], u[2], u[3],
                                   filter_prev_l, filter_prev_r))
            /\ filter_prev_l' = filtered_noise(params, filter_prev_l, u[3])
            /\ filter_prev_r' = filtered_noise(params, filter_prev_r, u[3])
            /\ mix_log' = Append(mix_log,
                    [index |-> i,
                     voice |-> vsum,
                     noise |-> noise(params, u[1]),
                     gran |-> granular_noise(params, t, u[2]),
                     filt |-> <<filtered_noise(params, filter_prev_l, u[3]),
                                filtered_noise(params, filter_prev_r, u[3])>>,
                     env |-> envelope(params, t)])
    /\ i' = i + 1
    /\ UNCHANGED <<call, arg, ret, pc, params, voices, num_samples, result, error, time,
                   env_out, phase_log>>
    /\ UNCHANGED revVars
    /\ UNCHANGED wavVars

\* generate returning before the loop is over
GenerateReturn_Early ==
    /\ pc = "generate_loop"
    /\ i <= num_samples
    /\ pc' = "reverb"
    /\ UNCHANGED <<call, arg, ret, params, samples, result, error, time, env_out, phase_log>>
    /\ UNCHANGED genVars
    /\ UNCHANGED revVars
    /\ UNCHANGED wavVars

\* the loop is over: generate returns Ok(()) and run goes on to apply_reverb
GenerateReturn ==
    /\ pc = "generate_loop"
    /\ i = num_samples
    /\ pc' = "reverb"
    /\ UNCHANGED <<call, arg, ret, params, samples, result, error, time, env_out, phase_log>>
    /\ UNCHANGED genVars
    /\ UNCHANGED revVars
    /\ UNCHANGED wavVars
(***************************************************************************)
(* Generator::apply_reverb.  Vec indices are 0-based in the code and       *)
(* 1-based here: buf_l[idx] of the code is buf_l[idx + 1].                 *)
(***************************************************************************)
\* a delay line that does not start silent
ZeroBuf_Ones(n) == [k \in 1..n |-> One]

\* vec![0.0; delay]
ZeroBuf(n) == [k \in 1..n |-> Zero]

\* apply_reverb clearing the filter state before its pass
ApplyReverbBegin_ClearsFilter ==
    /\ pc = "reverb"
    /\ delay' = ReverbDelay(params)
    /\ buf_l' = ZeroBuf(ReverbDelay(params))
    /\ buf_r' = ZeroBuf(ReverbDelay(params))
    /\ idx' = 0
    /\ pos' = 0
    /\ dry' = samples
    /\ wet_log' = <<>>
    /\ pc' = "reverb_loop"
    /\ phase_log' = Append(phase_log, "reverb")
    /\ filter_prev_l' = Zero
    /\ filter_prev_r' = Zero
    /\ UNCHANGED <<call, arg, ret, params, samples, result, error, time, env_out,
                   voices, num_samples, i, mix_log>>
    /\ UNCHANGED wavVars

\* the lines before the loop
ApplyReverbBegin ==
    /\ pc = "reverb"
    /\ delay' = ReverbDelay(params)
    /\ buf_l' = ZeroBuf(ReverbDelay(params))
    /\ buf_r' = ZeroBuf(ReverbDelay(params))
    /\ idx' = 0
    /\ pos' = 0
    /\ dry' = samples
    /\ wet_log' = <<>>
    /\ pc' = "reverb_loop"
    /\ phase_log' = Append(phase_log, "reverb")
    /\ UNCHANGED <<call, arg, ret, params, samples, result, error, time, env_out>>
    /\ UNCHANGED genVars
    /\ UNCHANGED wavVars

\* the wrap-around one slot late
NextIdx_OffByOne(j, d) == (j + 1) % (d + 1)

\* idx after one iteration: (idx + 1) % delay
NextIdx(j, d) == (j + 1) % d

\* one iteration of `for sample in &mut self.samples`; buf_l[idx] panics
\* (index out of bounds) when idx is not below the length of the buffer
ReverbStep ==
    /\ pc = "reverb_loop"
    /\ pos < Len(samples)
    /\ IF idx >= Len(buf_l)
       THEN /\ pc' = "panicked"
            /\ UNCHANGED <<samples, buf_l, buf_r, idx, pos, wet_log>>
       ELSE LET dry_l == samples[pos + 1][1]
                dry_r == samples[pos + 1][2]
                wet_l == buf_l[idx + 1]
                wet_r == buf_r[idx + 1]
            IN  /\ samples' = [samples EXCEPT ![pos + 1] =
                                  <<ReverbOut(params, dry_l, wet_l),
                                    ReverbOut(params, dry_r, wet_r)>>]
                /\ buf_l' = [buf_l EXCEPT ![idx + 1] = ReverbFeed(dry_l, wet_l)]
                /\ buf_r' = [buf_r EXCEPT ![idx + 1] = ReverbFeed(dry_r, wet_r)]
                /\ idx' = NextIdx(idx, delay)
                /\ pos' = pos + 1
                /\ wet_log' = Append(wet_log, <<wet_l, wet_r>>)
                /\ pc' = pc
    /\ UNCHANGED <<call, arg, ret, params, delay, dry, result, error, time, env_out, phase_log>>
    /\ UNCHANGED genVars
    /\ UNCHANGED wavVars

\* the loop is over: apply_reverb returns, and run goes on to write_wav
ApplyReverbReturn ==
    /\ pc = "reverb_loop"
    /\ pos = Len(samples)
    /\ pc' = IF call = "run" THEN "write" ELSE "done"
    /\ UNCHANGED <<call, arg, ret, params, samples, result, error, time, env_out, phase_log>>
    /\ UNCHANGED genVars
    /\ UNCHANGED revVars
    /\ UNCHANGED wavVars

(***************************************************************************)
(* Generator::write_wav and the end of Generator::run.  Each call into the *)
(* writer either succeeds or returns a hound::Error, which `?` returns     *)
(* from write_wav and from run.                                            *)
(***************************************************************************)
\* Self::writer(&self.params)?
WriterCreate ==
    /\ pc = "write"
    /\ phase_log' = Append(phase_log, "sink")
    /\ wpos' = 0
    /\ \E ok \in BOOLEAN :
        IF ok
        THEN /\ writer' = "open"
             /\ pc' = "write_loop"
             /\ UNCHANGED <<result, error>>
        ELSE /\ writer' = writer
             /\ pc' = "done"
             /\ result' = "Err"
             /\ error' = "create"
    /\ UNCHANGED <<call, arg, ret, params, samples, written, time, env_out>>
    /\ UNCHANGED genVars
    /\ UNCHANGED revVars

\* write_wav dropping the error of a failed write_sample and going on
WriteSamplePair_IgnoresError ==
    /\ pc = "write_loop"
    /\ wpos < Len(samples)
    /\ LET ls == ToPcm(samples[wpos + 1][1])
           rs == ToPcm(samples[wpos + 1][2])
       IN  \E outcome \in {"ok", "left_fails", "right_fails"} :
            CASE outcome = "ok" -> written' = written \o <<ls, rs>>
              [] outcome = "left_fails" -> written' = Append(written, rs)
              [] outcome = "right_fails" -> written' = Append(written, ls)
    /\ wpos' = wpos + 1
    /\ UNCHANGED <<call, arg, ret, pc, params, samples, writer, result, error, time,
                   env_out, phase_log>>
    /\ UNCHANGED genVars
    /\ UNCHANGED revVars

\* one iteration of `for (l, r) in &self.samples`: write_sample(ls)?, then
\* write_sample(rs)?
WriteSamplePair ==
    /\ pc = "write_loop"
    /\ wpos < Len(samples)
    /\ LET ls == ToPcm(samples[wpos + 1][1])
           rs == ToPcm(samples[wpos + 1][2])
       IN  \E outcome \in {"ok", "left_fails", "right_fails"} :
            CASE outcome = "ok" ->
                    /\ written' = written \o <<ls, rs>>
                    /\ wpos' = wpos + 1
                    /\ UNCHANGED <<pc, result, error>>
              [] outcome = "left_fails" ->
                    /\ pc' = "done"
                    /\ result' = "Err"
                    /\ error' = "write_sample"
                    /\ UNCHANGED <<written, wpos>>
              [] outcome = "right_fails" ->
                    /\ written' = Append(written, ls)
                    /\ pc' = "done"
                    /\ result' = "Err"
                    /\ error' = "write_sample"
                    /\ UNCHANGED wpos
    /\ UNCHANGED <<call, arg, ret, params, samples, writer, time, env_out, phase_log>>
    /\ UNCHANGED genVars
    /\ UNCHANGED revVars

\* writer.finalize()?; Ok(()) of write_wav, then the println and Ok(()) of run
Finalize ==
    /\ pc = "write_loop"
    /\ wpos = Len(samples)
    /\ pc' = "done"
    /\ \E ok \in BOOLEAN :
        IF ok
        THEN /\ writer' = "finalized"
             /\ result' = "Ok"
             /\ error' = error
        ELSE /\ writer' = writer
             /\ result' = "Err"
             /\ error' = "finalize"
    /\ UNCHANGED <<call, arg, ret, params, samples, wpos, written, time, env_out, phase_log>>
    /\ UNCHANGED genVars
    /\ UNCHANGED revVars

(***************************************************************************)
(* A direct call of Generator::envelope.                                   *)
(***************************************************************************)
EnvelopeCall ==
    /\ call = "envelope" /\ pc = "call"
    /\ env_out' = envelope(params, time)
    /\ pc' = "done"
    /\ UNCHANGED <<call, arg, ret, params, samples, result, error, time, phase_log>>
    /\ UNCHANGED genVars
    /\ UNCHANGED revVars
    /\ UNCHANGED wavVars
(***************************************************************************)
(* A direct call of Generator::filtered_noise: one draw, both channels.    *)
(***************************************************************************)
FilteredNoiseCall ==
    /\ call = "filtered_noise" /\ pc = "call"
    /\ LET fl == filtered_noise(params, filter_prev_l, arg.u)
           fr == filtered_noise(params, filter_prev_r, arg.u)
       IN  /\ filter_prev_l' = fl
           /\ filter_prev_r' = fr
           /\ ret' = <<fl, fr>>
    /\ pc' = "done"
    /\ UNCHANGED <<call, arg, params, samples, result, error, time, env_out,
                   voices, num_samples, i, mix_log, phase_log>>
    /\ UNCHANGED revVars
    /\ UNCHANGED wavVars
(***************************************************************************)
(* A direct call of Generator::parse_range.                                *)
(***************************************************************************)
ParseRangeCall ==
    /\ call = "parse_range" /\ pc = "call"
    /\ ret' = parse_range(arg.s, arg.default_min, arg.default_max)
    /\ pc' = "done"
    /\ UNCHANGED <<call, arg, params, samples, result, error, time, env_out,
                   phase_log>>
    /\ UNCHANGED genVars
    /\ UNCHANGED revVars
    /\ UNCHANGED wavVars
(***************************************************************************)
(* A direct call of JsonConfig::to_params, that is of into().              *)
(***************************************************************************)
JsonToParamsCall ==
    /\ call = "json_to_params" /\ pc = "call"
    /\ \E u \in Uuids : ret' = JsonConfigInto(arg, u)
    /\ pc' = "done"
    /\ UNCHANGED <<call, arg, params, samples, result, error, time, env_out,
                   phase_log>>
    /\ UNCHANGED genVars
    /\ UNCHANGED revVars
    /\ UNCHANGED wavVars
(***************************************************************************)
(* A direct call of CLI::to_params.                                        *)
(***************************************************************************)
ToParamsCall ==
    /\ call = "to_params" /\ pc = "call"
    /\ \E u \in Uuids : ret' = to_params(arg.cli, arg.file, u)
    /\ pc' = "done"
    /\ UNCHANGED <<call, arg, params, samples, result, error, time, env_out,
                   phase_log>>
    /\ UNCHANGED genVars
    /\ UNCHANGED revVars
    /\ UNCHANGED wavVars
(***************************************************************************)
(* Voice::synthesize called at one time on every voice of a bank, and the  *)
(* sum the voice loop of Generator::generate builds from the results.      *)
(***************************************************************************)
SynthesizeCall ==
    /\ call = "synthesize" /\ pc = "call"
    /\ ret' = [ outs |-> [k \in 1..Len(arg.voices) |->
                              synthesize(arg.voices[k], arg.t)],
                sum |-> VoiceSum(arg.voices, arg.t) ]
    /\ pc' = "done"
    /\ UNCHANGED <<call, arg, params, samples, result, error, time, env_out,
                   phase_log>>
    /\ UNCHANGED genVars
    /\ UNCHANGED revVars
    /\ UNCHANGED wavVars
(***************************************************************************)
(* A direct call of Note::as_midi_number.                                  *)
(***************************************************************************)
AsMidiNumberCall ==
    /\ call = "as_midi_number" /\ pc = "call"
    /\ ret' = as_midi_number(arg.note, arg.checks)
    /\ pc' = "done"
    /\ UNCHANGED <<call, arg, params, samples, result, error, time, env_out,
                   phase_log>>
    /\ UNCHANGED genVars
    /\ UNCHANGED revVars
    /\ UNCHANGED wavVars
(***************************************************************************)
(* A direct call of Chord::notes.                                          *)
(***************************************************************************)
ChordNotesCall ==
    /\ call = "notes" /\ pc = "call"
    /\ ret' = notes(arg.chord, arg.checks)
    /\ pc' = "done"
    /\ UNCHANGED <<call, arg, params, samples, result, error, time, env_out,
                   phase_log>>
    /\ UNCHANGED genVars
    /\ UNCHANGED revVars
    /\ UNCHANGED wavVars
(***************************************************************************)
(* The inputs of the model.                                                *)
(***************************************************************************)
\* "0.05:0.2" and "0.5:1.0", the defaults of the command line, and "0.5",
\* whose second component falls back to the default
StrLfoDefault == <<"0", ".", "0", "5", ":", "0", ".", "2">>
StrDepthDefault == <<"0", ".", "5", ":", "1", ".", "0">>
StrHalf == <<"0", ".", "5">>

\* sample rates: 0 (invalid), 10 (delay 0), 20 (delay 1), 40 (delay 2)
SampleRates == {0, 10, 20, 40}
Mixes == {Zero, Rat(3, 10), One}

\* the parameter records a run starts from, valid and invalid
RunParams ==
    [ sample_rate : SampleRates,
      duration : {Rat(k, 40) : k \in -1..MaxDurTicks},
      lfo_range : {StrLfoDefault, StrHalf},
      mod_depth_range : {StrDepthDefault},
      voices : 0..MaxVoices,
      base_freq : {Rat(10, 1)},
      noise_level : {Zero, One},
      attack : {Rat(k, 40) : k \in 0..MaxRampTicks},
      release : {Rat(k, 40) : k \in 0..MaxRampTicks},
      reverb_mix : Mixes ]

\* the parameter records a direct call of apply_reverb sees: only the
\* sample rate and the mix are read
ReverbParams ==
    [ sample_rate : SampleRates,
      duration : {One},
      lfo_range : {StrLfoDefault},
      mod_depth_range : {StrDepthDefault},
      voices : {0},
      base_freq : {Rat(10, 1)},
      noise_level : {Zero},
      attack : {Zero},
      release : {Zero},
      reverb_mix : Mixes ]

\* the stereo pairs and the buffers a direct call of apply_reverb finds
BufPairs == { <<Zero, Zero>>, <<One, Rat(-1, 2)>>, <<Rat(-1, 2), Rat(1, 4)>> }
Buffers == UNION { [1..n -> BufPairs] : n \in 0..MaxBufLen }

\* the parameter records and times a direct call of envelope sees: attack
\* and release are non-negative and at most the duration
EnvTick(k) == Rat(5 * k, 2)
EnvParams ==
    { [ sample_rate |-> 44100, duration |-> EnvTick(d),
        lfo_range |-> StrLfoDefault, mod_depth_range |-> StrDepthDefault,
        voices |-> 0, base_freq |-> Rat(330, 1), noise_level |-> Zero,
        attack |-> EnvTick(a), release |-> EnvTick(r), reverb_mix |-> Zero ] :
        d \in 1..MaxEnvTicks, a \in 0..MaxEnvTicks, r \in 0..MaxEnvTicks }
EnvTimes == {EnvTick(k) : k \in 0..(MaxEnvTicks + 2)}

\* the strings a direct call of parse_range sees: every string of up to
\* MaxStrLen characters of RangeChars ("x" stands for any character that
\* is no part of a number) and the strings of test_generator_parse_range
RangeChars == {"0", "5", ".", ":", "-", "x"}
StrTenthToThreeTenths == <<"0", ".", "1", ":", "0", ".", "3">>
StrInvalid == <<"i", "n", "v", "a", "l", "i", "d">>
RangeStrings ==
    UNION { [1..n -> RangeChars] : n \in 0..MaxStrLen }
        \cup {StrTenthToThreeTenths, StrHalf, StrInvalid, StrLfoDefault}
\* the default bounds: those of the tests, (0, 1) and (0.2, 0.8), and those
\* generate_voices passes for the LFO range, (0.05, 0.2)
RangeDefaults ==
    { <<Zero, One>>, <<Rat(1, 5), Rat(4, 5)>>, <<Rat(1, 20), Rat(1, 5)>> }

\* the JsonConfig values a direct call of to_params sees: those of
\* test_json_config_conversion and of JsonConfig::default, field by field
StrTestJsonWav == <<"t", "e", "s", "t", "_", "j", "s", "o", "n", ".", "w", "a", "v">>
StrOutWav == <<"o", "u", "t", ".", "w", "a", "v">>
JsonConfigs ==
    [ output : {<<>>, <<StrTestJsonWav>>, <<StrOutWav>>},
      duration : {Rat(45, 1), Rat(60, 1)},
      sample_rate : {48000, 44100},
      voices : {8, 4},
      base_freq : {Rat(440, 1)},
      lfo_rate_range : { <<Rat(1, 10), Rat(3, 10)>>, <<Rat(1, 20), Rat(1, 5)>> },
      noise_level : {Rat(1, 50), Rat(1, 200)},
      mod_depth_range : { <<Rat(3, 10), Rat(4, 5)>>, <<Rat(1, 2), One>> },
      attack : {Rat(3, 1)},
      release : {Rat(5, 1)},
      reverb_mix : {Rat(2, 5)} ]

\* JsonConfig::default()
JsonDefault ==
    [ output |-> <<>>, duration |-> Rat(60, 1), sample_rate |-> 44100,
      voices |-> 4, base_freq |-> Rat(330, 1),
      lfo_rate_range |-> <<Rat(1, 20), Rat(1, 5)>>,
      noise_level |-> Rat(1, 200),
      mod_depth_range |-> <<Rat(1, 2), One>>,
      attack |-> Rat(5, 1), release |-> Rat(10, 1), reverb_mix |-> Rat(3, 10) ]

\* what the config path can lead to: no readable file, a file that is no
\* JSON of a JsonConfig, or a file holding a configuration
ConfigFiles ==
    { [kind |-> k, config |-> JsonDefault] : k \in {"unreadable", "malformed"} }
        \cup { [kind |-> "json", config |-> c] : c \in JsonConfigs }

\* the command lines a call of CLI::to_params sees: those of the test
\* helper cli(), with and without --config and --output
StrTestWav == <<"t", "e", "s", "t", ".", "w", "a", "v">>
StrConfigJson == <<"c", ".", "j", "s", "o", "n">>
StrDepthTest == <<"0", ".", "3", ":", "0", ".", "8">>
CommandLines ==
    [ config : {<<>>, <<StrConfigJson>>},
      output : {<<>>, <<StrTestWav>>},
      duration : {Rat(30, 1), Rat(20, 1)},
      sample_rate : {22050},
      voices : {6},
      base_freq : {Rat(220, 1)},
      lfo_rate_range : {StrTenthToThreeTenths, StrHalf},
      noise_level : {Rat(1, 100)},
      mod_depth_range : {StrDepthTest},
      attack : {Rat(2, 1)},
      release : {Rat(4, 1)},
      reverb_mix : {Rat(1, 2)} ]

\* the stereo pairs and the buffers a direct call of write_wav finds: values
\* within [-1, 1], its ends included, and beyond
WavPairs ==
    { <<Rat(1, 3), Rat(-1, 1)>>, <<Rat(3, 2), Rat(-2, 1)>>,
      <<Rat(-2, 3), One>>, <<Zero, Rat(-1, 32767)>> }
WavBuffers == UNION { [1..n -> WavPairs] : n \in 0..MaxWavLen }

\* the voices, voice banks and times a direct call of synthesize sees;
\* 1/1760 s is the quarter period of the 440 Hz voice of test_voice_synthesis
VoiceSet ==
    [ freq : {One, Rat(440, 1)},
      lfo_rate : {Rat(1, 10), One},
      mod_depth : {Rat(1, 2)},
      pan_rate : {Rat(1, 50), Rat(1, 4)} ]
VoiceBanks == UNION { [1..n -> VoiceSet] : n \in 0..MaxBankVoices }
VoiceTimes == {Zero, Rat(1, 1760), Rat(1, 4), One}

\* the notes a direct call of as_midi_number sees
Notes == [pitch_cls : PitchClasses, octave : (-2)..MaxOctave]

\* the chords a direct call of notes sees: every named kind and two custom
\* kinds, of whole octaves and of one wide interval
ChordKinds ==
    { [tag |-> t, custom |-> <<>>] :
        t \in {"Major", "Minor", "Diminished", "Augmented", "Major7",
               "Minor7", "Dominant7"} }
        \cup { [tag |-> "Custom", custom |-> c] : c \in { <<0, 12, 24>>, <<0, 200>> } }
Chords == [root : Notes, kind : ChordKinds]

\* the parameter records a direct call of Generator::new sees: the ranges
\* "0.05:0.2" and "0.5:1.0" (min < max), "0.1:0.1" and "0.5:0.5"
\* (min = max), and "0.5" as LFO range (min > max once the default fills in)
StrLfoPoint == <<"0", ".", "1", ":", "0", ".", "1">>
StrDepthPoint == <<"0", ".", "5", ":", "0", ".", "5">>
SetupParams ==
    [ sample_rate : {10},
      duration : {Rat(1, 10)},
      lfo_range : {StrLfoDefault, StrLfoPoint, StrHalf},
      mod_depth_range : {StrDepthDefault, StrDepthPoint},
      voices : 0..MaxSetupVoices,
      base_freq : {Rat(10, 1), Rat(330, 1)},
      noise_level : {Zero},
      attack : {Zero},
      release : {Zero},
      reverb_mix : {Zero, Rat(3, 10)} ]

\* the filter states, noise levels and draws of (-1, 1) a direct call of
\* filtered_noise sees
FilterStates == {Rat(k, 4) : k \in (-MaxFilterTicks)..MaxFilterTicks}
FilterParams ==
    { [ sample_rate |-> 44100, duration |-> One,
        lfo_range |-> StrLfoDefault, mod_depth_range |-> StrDepthDefault,
        voices |-> 0, base_freq |-> Rat(330, 1), noise_level |-> nl,
        attack |-> Zero, release |-> Zero, reverb_mix |-> Zero ] :
        nl \in {Zero, Rat(1, 2), One, Rat(10, 1)} }
FilterDraws == {Rat(-1, 1), Rat(-1, 2), Zero, Rat(1, 2)}

\* a parameter record that meets the constraints on duration and sample rate
ValidParams(p) == p.sample_rate > 0 /\ RLt(Zero, p.duration)
\* attack and release are at most the duration
ValidRamps(p) == RLe(p.attack, p.duration) /\ RLe(p.release, p.duration)

(***************************************************************************)
(* Specifications.                                                         *)
(***************************************************************************)
\* the state no call has touched, the filter state apart
FreshButFilter ==
    /\ voices = <<>>
    /\ num_samples = 0
    /\ i = 0
    /\ delay = 0
    /\ buf_l = <<>>
    /\ buf_r = <<>>
    /\ idx = 0
    /\ pos = 0
    /\ writer = "none"
    /\ wpos = 0
    /\ written = <<>>
    /\ result = "none"
    /\ error = "none"
    /\ env_out = Zero
    /\ ret = <<>>
    /\ dry = <<>>
    /\ wet_log = <<>>
    /\ mix_log = <<>>
    /\ phase_log = <<>>

\* the state no call has touched
Fresh ==
    /\ FreshButFilter
    /\ filter_prev_l = Zero
    /\ filter_prev_r = Zero

\* run(): Generator::new(params).and_then(|mut r| r.run())
Init ==
    /\ call = "run" /\ pc = "new"
    /\ params \in RunParams
    /\ samples = <<>>
    /\ time = Zero
    /\ arg = <<>>
    /\ Fresh

Next ==
    \/ New
    \/ GenerateBegin
    \/ GenerateStep
    \/ GenerateReturn
    \/ ApplyReverbBegin
    \/ ReverbStep
    \/ ApplyReverbReturn
    \/ WriterCreate
    \/ WriteSamplePair
    \/ Finalize

Spec == Init /\ [][Next]_vars

\* apply_reverb called on a generator with any sample buffer
InitReverb ==
    /\ call = "apply_reverb" /\ pc = "reverb"
    /\ params \in ReverbParams
    /\ samples \in Buffers
    /\ time = Zero
    /\ arg = <<>>
    /\ Fresh

NextReverb ==
    \/ ApplyReverbBegin
    \/ ReverbStep
    \/ ApplyReverbReturn

SpecReverb == InitReverb /\ [][NextReverb]_vars

\* envelope called on a generator with any valid attack, release, duration
InitEnvelope ==
    /\ call = "envelope" /\ pc = "call"
    /\ params \in {p \in EnvParams : ValidRamps(p)}
    /\ samples = <<>>
    /\ time \in EnvTimes
    /\ arg = <<>>
    /\ Fresh

NextEnvelope == EnvelopeCall

SpecEnvelope == InitEnvelope /\ [][NextEnvelope]_vars

\* Generator::new called with any parameter record
InitSetup ==
    /\ call = "new" /\ pc = "new"
    /\ params \in SetupParams
    /\ samples = <<>>
    /\ time = Zero
    /\ arg = <<>>
    /\ Fresh

NextSetup == New

SpecSetup == InitSetup /\ [][NextSetup]_vars

\* the state of a call of a function that has no generator
NoGenerator ==
    /\ params \in ReverbParams /\ params.sample_rate = 0
    /\ params.reverb_mix = Zero
    /\ samples = <<>>
    /\ time = Zero
    /\ Fresh

\* parse_range called with any string and defaults
InitParseRange ==
    /\ call = "parse_range" /\ pc = "call"
    /\ \E str \in RangeStrings, d \in RangeDefaults :
          arg = [s |-> str, default_min |-> d[1], default_max |-> d[2]]
    /\ NoGenerator

NextParseRange == ParseRangeCall

SpecParseRange == InitParseRange /\ [][NextParseRange]_vars

\* JsonConfig::to_params called on any configuration
InitJson ==
    /\ call = "json_to_params" /\ pc = "call"
    /\ arg \in JsonConfigs
    /\ NoGenerator

NextJson == JsonToParamsCall

SpecJson == InitJson /\ [][NextJson]_vars

\* CLI::to_params called on any command line, with any file at the path
InitToParams ==
    /\ call = "to_params" /\ pc = "call"
    /\ \E c \in CommandLines, f \in ConfigFiles : arg = [cli |-> c, file |-> f]
    /\ NoGenerator

NextToParams == ToParamsCall

SpecToParams == InitToParams /\ [][NextToParams]_vars

\* write_wav called on a generator with any sample buffer
InitWrite ==
    /\ call = "write_wav" /\ pc = "write"
    /\ params \in ReverbParams /\ params.sample_rate = 40
    /\ params.reverb_mix = Zero
    /\ samples \in WavBuffers
    /\ time = Zero
    /\ arg = <<>>
    /\ Fresh

NextWrite ==
    \/ WriterCreate
    \/ WriteSamplePair
    \/ Finalize

SpecWrite == InitWrite /\ [][NextWrite]_vars

\* synthesize called on the voices of any bank at any time
InitVoice ==
    /\ call = "synthesize" /\ pc = "call"
    /\ \E b \in VoiceBanks, t \in VoiceTimes : arg = [voices |-> b, t |-> t]
    /\ NoGenerator

NextVoice == SynthesizeCall

SpecVoice == InitVoice /\ [][NextVoice]_vars

\* as_midi_number called on any note, in a build with or without overflow
\* checks
InitNote ==
    /\ call = "as_midi_number" /\ pc = "call"
    /\ \E n \in Notes, c \in BOOLEAN : arg = [note |-> n, checks |-> c]
    /\ NoGenerator

NextNote == AsMidiNumberCall

SpecNote == InitNote /\ [][NextNote]_vars

\* notes called on any chord, in a build with or without overflow checks
InitChord ==
    /\ call = "notes" /\ pc = "call"
    /\ \E c \in Chords, k \in BOOLEAN : arg = [chord |-> c, checks |-> k]
    /\ NoGenerator

NextChord == ChordNotesCall

SpecChord == InitChord /\ [][NextChord]_vars

\* filtered_noise called on a generator with any filter state
InitFilter ==
    /\ call = "filtered_noise" /\ pc = "call"
    /\ params \in FilterParams
    /\ samples = <<>>
    /\ time = Zero
    /\ filter_prev_l \in FilterStates
    /\ filter_prev_r \in FilterStates
    /\ \E u \in FilterDraws :
          arg = [u |-> u, prev_l |-> filter_prev_l, prev_r |-> filter_prev_r]
    /\ FreshButFilter

NextFilter == FilteredNoiseCall

SpecFilter == InitFilter /\ [][NextFilter]_vars
(***************************************************************************)
(* Properties.                                                             *)
(***************************************************************************)
Phases == <<"setup", "accumulation", "reverb", "sink">>
IsPrefix(a, b) == Len(a) <= Len(b) /\ a = SubSeq(b, 1, Len(a))
InLog(ph) == \E k \in 1..Len(phase_log) : phase_log[k] = ph
AllZeroPairs(buf) == \A k \in 1..Len(buf) : buf[k] = <<Zero, Zero>>
AllZero(buf) == \A k \in 1..Len(buf) : buf[k] = Zero
\* Accumulation is over: generate has returned
Accumulated == call = "run" /\ pc \in {"reverb", "reverb_loop", "write", "write_loop", "done"}

\* C1: for every valid parameter record (positive sample rate, positive
\* duration) the sample buffer holds exactly round(duration * sample_rate)
\* pairs after Accumulation and after the reverb pass.
C1_BufferLenIsRound ==
    (Accumulated /\ ValidParams(params)) =>
        Len(samples) = RRound(RMul(params.duration, Rat(params.sample_rate, 1)))

\* C2: each channel of every pair Accumulation appends equals (voice sum +
\* base noise + granular noise + filtered noise) * envelope(t), so that a
\* sample at which the envelope is 0 is (0, 0).
C2_EnvelopeMultiplies ==
    (call = "run" /\ pc \in {"generate_loop", "reverb"}) =>
        \A k \in 1..Len(samples) :
            LET m == mix_log[k]
                sum_l == RAdd(RAdd(RAdd(m.voice[1], m.noise), m.gran), m.filt[1])
                sum_r == RAdd(RAdd(RAdd(m.voice[2], m.noise), m.gran), m.filt[2])
            IN  samples[k] = <<RMul(sum_l, m.env), RMul(sum_r, m.env)>>

\* C3: with a delay length D > 0 the reverb pass is one forward pass that
\* reads slot i mod D before writing it: the wet value read for sample i is
\* 0 for i < D and dry[i-D] + 0.7 * wet[i-D] for i >= D, the output written
\* is dry * (1 - mix) + wet * mix, and the slot is then set to
\* dry + 0.7 * wet with the wet value read.
C3_ReverbReadBeforeWrite ==
    (pc \in {"reverb_loop", "done"} /\ delay > 0) =>
        LET D == delay
            mix == params.reverb_mix
            fed(k, c) == RAdd(dry[k][c], RMul(Rat(7, 10), wet_log[k][c]))
            out(k, c) == RAdd(RMul(dry[k][c], RSub(One, mix)), RMul(wet_log[k][c], mix))
        IN  /\ Len(wet_log) = pos /\ Len(samples) = Len(dry)
            /\ idx = pos % D
            /\ \A k \in 1..pos :
                /\ wet_log[k] = IF k <= D THEN <<Zero, Zero>>
                                ELSE <<fed(k - D, 1), fed(k - D, 2)>>
                /\ samples[k] = <<out(k, 1), out(k, 2)>>
            /\ \A k \in (pos + 1)..Len(samples) : samples[k] = dry[k]
            /\ pos > 0 =>
                /\ buf_l[((pos - 1) % D) + 1] = fed(pos, 1)
                /\ buf_r[((pos - 1) % D) + 1] = fed(pos, 2)
C3_Witness ==
    /\ call = "apply_reverb" /\ pc = "done" /\ delay = 1 /\ pos >= 3
    /\ params.reverb_mix = Rat(3, 10)
    /\ wet_log[3] # dry[2] /\ wet_log[3] # <<Zero, Zero>>

\* C4: with reverb_mix = 0 every sample after the pass equals the sample
\* before it; with reverb_mix = 1 every output sample equals the wet value
\* read for its index, so the first D samples are zero.
C4_ReverbMixExtremes ==
    (pc = "done" /\ call = "apply_reverb") =>
        /\ params.reverb_mix = Zero => samples = dry
        /\ params.reverb_mix = One =>
            /\ samples = wet_log
            /\ \A k \in 1..Len(samples) : k <= delay => samples[k] = <<Zero, Zero>>
C4_Witness ==
    /\ call = "apply_reverb" /\ pc = "done" /\ params.reverb_mix = One
    /\ delay = 2 /\ Len(samples) >= 3
    /\ dry[1] # <<Zero, Zero>> /\ samples[3] = dry[1]

\* C5: the reverb pass leaves an all-zero buffer of any length all zero,
\* and every slot of the delay buffers stays zero throughout the pass.
C5_ReverbSilence ==
    (pc \in {"reverb_loop", "done"} /\ AllZeroPairs(dry)) =>
        /\ Len(samples) = Len(dry)
        /\ AllZeroPairs(samples)
        /\ AllZero(buf_l) /\ AllZero(buf_r)
C5_Witness ==
    /\ call = "apply_reverb" /\ pc = "done" /\ params.reverb_mix = Rat(3, 10)
    /\ delay = 1 /\ Len(dry) >= 3 /\ AllZeroPairs(dry) /\ pos = Len(dry)

\* C6: when the delay length is 0 and the buffer is not empty, the pass is
\* guarded: it never fails on a modulo by zero or an index out of range,
\* and in every state of the pass 0 <= idx < D.
C6_ReverbGuarded ==
    (params.sample_rate > 0 /\ ReverbDelay(params) = 0) =>
        /\ pc # "panicked"
        /\ (pc = "reverb_loop" /\ pos > 0) => (0 <= idx /\ idx < delay)

\* C7: a parameter record with a non-positive duration or a zero sample
\* rate is rejected with an error before Setup: Generator::new returns no
\* Generator, and no Accumulation step, reverb step or file write happens.
C7_InvalidRejected ==
    (call = "run" /\ ~ValidParams(params)) =>
        /\ pc \in {"new", "done"}
        /\ phase_log = <<>>
        /\ writer = "none"
        /\ pc = "done" => result = "Err"

C9_NoPartialSuccess ==
    call = "run" =>
        /\ result = "none" => error = "none"
        /\ result = "Ok" =>
            /\ Len(samples) = num_samples
            /\ Len(written) = 2 * Len(samples)
            /\ \A k \in 1..Len(samples) :
                /\ written[2 * k - 1] = ToPcm(samples[k][1])
                /\ written[2 * k] = ToPcm(samples[k][2])
            /\ writer = "finalized"
            /\ error = "none"
        /\ result = "Err" =>
            /\ pc = "done" /\ ~ENABLED Next
            /\ writer # "finalized"
            /\ error \in {"create", "write_sample", "finalize"}
            /\ error = "create" => (writer = "none" /\ written = <<>>)
            /\ error = "write_sample" =>
                (writer = "open" /\ Len(written) < 2 * Len(samples))
            /\ error = "finalize" =>
                (writer = "open" /\ Len(written) = 2 * Len(samples))
C9_Witness ==
    /\ call = "run" /\ result = "Err" /\ error = "write_sample"
    /\ Len(written) = 3 /\ Len(samples) >= 3

\* C10 as stated: for every valid parameter record, attack = 0 and
\* release = 0 included, envelope(0) = 0 and envelope(duration) = 0.
C10_EnvelopeZeroAtEnds ==
    (call = "envelope" /\ pc = "done") =>
        /\ time = Zero => env_out = Zero
        /\ time = params.duration => env_out = Zero

\* C10 as amended: for every valid parameter record, envelope(0) = 0 when
\* attack > 0 and envelope(duration) = 0 when release > 0; with attack = 0,
\* envelope(0) = 1, and with release = 0, envelope(duration) = 1.
C10_EnvelopeEnds ==
    (call = "envelope" /\ pc = "done") =>
        /\ time = Zero =>
            env_out = (IF RLt(Zero, params.attack) THEN Zero ELSE One)
        /\ time = params.duration =>
            env_out = (IF RLt(Zero, params.release) THEN Zero ELSE One)
C10_Witness ==
    /\ call = "envelope" /\ pc = "done" /\ time = params.duration
    /\ params.release = Zero /\ params.attack = params.duration
    /\ env_out = One

\* the attack and release windows overlap: attack + release > duration
Overlapping(p) == RLt(p.duration, RAdd(p.attack, p.release))

\* C11 as stated: for every valid parameter record, envelope(attack) = 1 and
\* envelope(t) = 1 for every t of the sustain plateau
\* attack <= t <= duration - release.
C11_FullGainAtAttack ==
    (call = "envelope" /\ pc = "done") =>
        /\ time = params.attack => env_out = One
        /\ (RLe(params.attack, time)
             /\ RLe(time, RSub(params.duration, params.release))) =>
                env_out = One

\* C11 as amended: envelope(t) = 1 for every t of the sustain plateau, and
\* envelope(attack) = 1 when attack + release <= duration; when the windows
\* overlap, envelope(attack) = (duration - attack) / release, below 1.
C11_FullGainUnlessOverlap ==
    (call = "envelope" /\ pc = "done") =>
        /\ time = params.attack =>
            /\ ~Overlapping(params) => env_out = One
            /\ Overlapping(params) =>
                /\ env_out = FDiv(RSub(params.duration, params.attack),
                                  params.release)
                /\ RLt(env_out, One)
        /\ (RLe(params.attack, time)
             /\ RLe(time, RSub(params.duration, params.release))) =>
                env_out = One
C11_Witness ==
    /\ call = "envelope" /\ pc = "done" /\ time = params.attack
    /\ RLt(Zero, params.attack) /\ RLt(Zero, params.release)
    /\ RAdd(params.attack, params.release) = params.duration
    /\ env_out = One

\* C12: for every time t >= 0 and every valid parameter record, envelope(t)
\* lies in [0, 1], and envelope(t) = 0 for every t > duration, release = 0
\* included.
C12_EnvelopeBounded ==
    (call = "envelope" /\ pc = "done") =>
        /\ IsFinite(env_out) /\ RLe(Zero, env_out) /\ RLe(env_out, One)
        /\ RLt(params.duration, time) => env_out = Zero
C12_Witness ==
    /\ call = "envelope" /\ pc = "done"
    /\ RLt(params.duration, time) /\ params.release = Zero
    /\ env_out = Zero

\* x lies between a and b, inclusive
Between(x, a, b) ==
    \/ RLe(a, x) /\ RLe(x, b)
    \/ RLe(b, x) /\ RLe(x, a)

\* C13: each filtered-noise step is a convex combination with A = 0.1: on
\* each channel the new state is 0.1 * w + 0.9 * old state, lies between the
\* old state and w inclusive, and is the value returned for the channel.
C13_FilterConvex ==
    (call = "filtered_noise" /\ pc = "done") =>
        LET w == RMul(RMul(arg.u, params.noise_level), Rat(3, 10))
            Step(old) == RAdd(RMul(Rat(1, 10), w), RMul(Rat(9, 10), old))
        IN  /\ filter_prev_l = Step(arg.prev_l)
            /\ filter_prev_r = Step(arg.prev_r)
            /\ Between(filter_prev_l, arg.prev_l, w)
            /\ Between(filter_prev_r, arg.prev_r, w)
            /\ ret = <<filter_prev_l, filter_prev_r>>
C13_Witness ==
    /\ call = "filtered_noise" /\ pc = "done"
    /\ arg.prev_l = Rat(1, 4) /\ arg.prev_r = Rat(-1, 2)
    /\ arg.u = Rat(1, 2) /\ params.noise_level = Rat(10, 1)
    /\ ret = <<Rat(3, 8), Rat(-3, 10)>>

\* the data-model constraints of a parameter record that Setup reads: at
\* least one voice, an LFO range of non-negative reals with min <= max, a
\* depth range within [0, 1] with min <= max
MeetsDataModel(p) ==
    /\ p.voices >= 1
    /\ RLe(Zero, LfoRange(p)[1]) /\ RLe(LfoRange(p)[1], LfoRange(p)[2])
    /\ RLe(Zero, DepthRange(p)[1]) /\ RLe(DepthRange(p)[1], DepthRange(p)[2])
    /\ RLe(DepthRange(p)[2], One)

Least(S) == CHOOSE k \in S : \A j \in S : k <= j

\* C15: parse_range falls back per component: the returned min is the number
\* parsed from the text before the first ':' if it parses and default_min
\* otherwise; the returned max is the number parsed from the text between
\* the first and the second ':' if present and parseable and default_max
\* otherwise; "0.1:0.3" gives (0.1, 0.3), "0.5" gives (0.5, default_max),
\* "invalid" and "" give both defaults.
C15_ParseRangeFallsBack ==
    (call = "parse_range" /\ pc = "done") =>
        LET str == arg.s
            colons == {k \in 1..Len(str) : str[k] = ":"}
            c1 == IF colons = {} THEN Len(str) + 1 ELSE Least(colons)
            later == {k \in colons : k > c1}
            c2 == IF later = {} THEN Len(str) + 1 ELSE Least(later)
            first == ParseF32(SubSeq(str, 1, c1 - 1))
            second == ParseF32(SubSeq(str, c1 + 1, c2 - 1))
        IN  /\ ret[1] = (IF first.ok THEN first.val ELSE arg.default_min)
            /\ ret[2] = (IF colons # {} /\ second.ok
                         THEN second.val ELSE arg.default_max)
            /\ str = StrTenthToThreeTenths => ret = <<Rat(1, 10), Rat(3, 10)>>
            /\ str = StrHalf => ret = <<Rat(1, 2), arg.default_max>>
            /\ str \in {StrInvalid, <<>>} =>
                    ret = <<arg.default_min, arg.default_max>>
C15_Witness ==
    /\ call = "parse_range" /\ pc = "done"
    /\ arg.s = <<"5", ":", "x">> /\ arg.default_max = Rat(4, 5)
    /\ ret = <<Rat(5, 1), Rat(4, 5)>>

\* the string str is "min:max" for the pair range: two components that
\* parse to the numbers of the pair
IsMinMaxString(str, range) ==
    /\ Len(SplitColon(str)) = 2
    /\ ParseF32(SplitColon(str)[1]) = [ok |-> TRUE, val |-> range[1]]
    /\ ParseF32(SplitColon(str)[2]) = [ok |-> TRUE, val |-> range[2]]

SameNumbers(p, c) ==
    /\ p.duration = c.duration /\ p.sample_rate = c.sample_rate
    /\ p.voices = c.voices /\ p.base_freq = c.base_freq
    /\ p.noise_level = c.noise_level /\ p.attack = c.attack
    /\ p.release = c.release /\ p.reverb_mix = c.reverb_mix
IsSuffix(a, b) ==
    Len(a) <= Len(b) /\ SubSeq(b, Len(b) - Len(a) + 1, Len(b)) = a

\* C17: CLI::to_params with a config path derives the record from the JSON
\* file only, whatever the other command-line values, and returns a
\* ConfigError and no record when the file cannot be read or parsed;
\* without a config path the fields equal the command-line values and the
\* filename equals the --output value when one was given.
C17_ToParamsSource ==
    (call = "to_params" /\ pc = "done") =>
        /\ (arg.cli.config # <<>> /\ arg.file.kind # "json") =>
            /\ ~ret.ok /\ ret.params = <<>>
            /\ ret.err = (IF arg.file.kind = "unreadable"
                          THEN "IoError" ELSE "JsonError")
        /\ (arg.cli.config # <<>> /\ arg.file.kind = "json") =>
            /\ ret.ok /\ Len(ret.params) = 1
            /\ SameNumbers(ret.params[1], arg.file.config)
            /\ IsMinMaxString(ret.params[1].lfo_range,
                              arg.file.config.lfo_rate_range)
            /\ IsMinMaxString(ret.params[1].mod_depth_range,
                              arg.file.config.mod_depth_range)
            /\ IsSuffix(IF arg.file.config.output # <<>>
                        THEN arg.file.config.output[1]
                        ELSE <<"a", "m", "b", "i", "e", "n", "t", ".", "w", "a", "v">>,
                        ret.params[1].filename)
        /\ arg.cli.config = <<>> =>
            /\ ret.ok /\ Len(ret.params) = 1
            /\ SameNumbers(ret.params[1], arg.cli)
            /\ ret.params[1].lfo_range = arg.cli.lfo_rate_range
            /\ ret.params[1].mod_depth_range = arg.cli.mod_depth_range
            /\ arg.cli.output # <<>> =>
                    ret.params[1].filename = arg.cli.output[1]
C17_Witness ==
    /\ call = "to_params" /\ pc = "done"
    /\ arg.cli.config # <<>> /\ arg.cli.output # <<>>
    /\ arg.file.kind = "json"
    /\ ret.ok /\ ret.params[1].duration = Rat(45, 1)
    /\ arg.cli.duration = Rat(30, 1)

\* the channel value the k-th value written comes from: left, right, left...
SourceOf(k) == samples[(k + 1) \div 2][IF k % 2 = 1 THEN 1 ELSE 2]

\* C18: the sink writes, for every pair in buffer order, the left value then
\* the right value, each as clamp(value * 32767, -32768, 32767) converted to
\* a 16-bit integer; every written value lies in [-32768, 32767] whatever
\* the input, and a completed write has written 2 * buffer-length values.
C18_SinkQuantizes ==
    call = "write_wav" =>
        /\ Len(written) <= 2 * Len(samples)
        /\ \A k \in 1..Len(written) :
            /\ written[k] >= -32768 /\ written[k] <= 32767
            /\ written[k] =
                    RTrunc(FClamp(RMul(SourceOf(k), Rat(32767, 1)),
                                  Rat(-32768, 1), Rat(32767, 1)))
        /\ result = "Ok" => Len(written) = 2 * Len(samples)
C18_Witness ==
    /\ call = "write_wav" /\ result = "Ok"
    /\ Len(samples) = 2 /\ samples[2] = <<Rat(3, 2), Rat(-2, 1)>>
    /\ Len(written) = 4 /\ written[3] = 32767 /\ written[4] = -32768

\* C19: for every sample value v in [-1, 1], encoding v with the sink's rule
\* and decoding the 16-bit integer by dividing by 32767 recovers v within
\* one quantization step: |decoded - v| <= 1/32767.
C19_PcmRoundTrip ==
    call = "write_wav" =>
        \A k \in 1..Len(written) :
            LET v == SourceOf(k)
                decoded == Rat(written[k], 32767)
                diff == RSub(decoded, v)
            IN  (RLe(Rat(-1, 1), v) /\ RLe(v, One)) =>
                    /\ RLe(diff, Rat(1, 32767))
                    /\ RLe(Rat(-1, 32767), diff)
C19_Witness ==
    /\ call = "write_wav" /\ Len(written) >= 2
    /\ samples[1] = <<Rat(1, 3), Rat(-1, 1)>>
    /\ written[1] = 10922 /\ written[2] = -32767

\* C20: for every voice, whatever its frequency, LFO rate, modulation depth
\* and pan rate, synthesize(0) returns exactly (0, 0); so the voice
\* contribution to sample index 0 is zero for any voice bank.
C20_VoiceSilentAtZero ==
    (call = "synthesize" /\ pc = "done" /\ arg.t = Zero) =>
        /\ \A k \in 1..Len(arg.voices) : ret.outs[k] = <<Zero, Zero>>
        /\ ret.sum = <<Zero, Zero>>
C20_Witness ==
    /\ call = "synthesize" /\ pc = "done" /\ arg.t = Zero
    /\ Len(arg.voices) = 2 /\ arg.voices[1] # arg.voices[2]
    /\ arg.voices[1].freq = Rat(440, 1)
    /\ ret.outs = << <<Zero, Zero>>, <<Zero, Zero>> >>
    /\ ret.sum = <<Zero, Zero>>

\* the MIDI number of a note: 12 * (octave + 1) + pitch-class index
Midi(note) == 12 * (note.octave + 1) + midi_base(note.pitch_cls)

\* C21: for every pitch class and every octave for which
\* 12 * (octave + 1) + pitch-class index lies in 0..255, as_midi_number
\* returns exactly that number, with no overflow or wrap-around in any
\* intermediate 8-bit computation.
C21_MidiNumberExact ==
    (call = "as_midi_number" /\ pc = "done" /\ InU8(Midi(arg.note))) =>
        /\ ~ret.panicked
        /\ ~ret.overflowed
        /\ ret.value = Midi(arg.note)

\* C22: for every chord whose root and root-plus-interval MIDI numbers all
\* lie in 0..255, notes returns one note per interval of the chord kind, in
\* interval order, and the i-th note has MIDI number root MIDI + interval_i:
\* its pitch class is (root MIDI + interval_i) mod 12 and its octave is the
\* root octave raised by one for each multiple of 12 crossed.
C22_ChordNotesExact ==
    LET root == arg.chord.root
        ivs == intervals(arg.chord.kind)
    IN  (/\ call = "notes" /\ pc = "done"
         /\ InU8(Midi(root))
         /\ \A k \in 1..Len(ivs) : InU8(Midi(root) + ivs[k])) =>
            /\ ~ret.panicked
            /\ Len(ret.notes) = Len(ivs)
            /\ \A k \in 1..Len(ivs) :
                /\ Midi(ret.notes[k]) = Midi(root) + ivs[k]
                /\ midi_base(ret.notes[k].pitch_cls) = (Midi(root) + ivs[k]) % 12
                /\ ret.notes[k].octave = root.octave
                        + ((Midi(root) + ivs[k]) \div 12) - (Midi(root) \div 12)

\* C23: when attack + release > duration the envelope never fails and is
\* evaluated pointwise and clamped to [0, 1]: for t < attack it is
\* t / attack, and for t >= attack with t > duration - release it is
\* (duration - t) / release, clamped; each ramp is linear in t (attack = 5
\* gives envelope(2.5) = 0.5; duration = 20 and release = 10 give
\* envelope(15) = 0.5).
C23_OverlapPointwise ==
    (call = "envelope" /\ pc = "done") =>
        /\ Overlapping(params) =>
            /\ IsFinite(env_out) /\ RLe(Zero, env_out) /\ RLe(env_out, One)
            /\ RLt(time, params.attack) =>
                    RMul(env_out, params.attack) = time
            /\ (RLe(params.attack, time)
                 /\ RLt(RSub(params.duration, params.release), time)) =>
                    IF RLe(params.duration, time)
                    THEN env_out = Zero
                    ELSE RMul(env_out, params.release)
                            = RSub(params.duration, time)
        /\ (params.attack = Rat(5, 1) /\ time = Rat(5, 2)) =>
                env_out = Rat(1, 2)
        /\ (params.duration = Rat(20, 1) /\ params.release = Rat(10, 1)
             /\ time = Rat(15, 1) /\ RLe(params.attack, time)) =>
                env_out = Rat(1, 2)
C23_Witness ==
    /\ call = "envelope" /\ pc = "done" /\ Overlapping(params)
    /\ params.duration = Rat(20, 1) /\ params.release = Rat(10, 1)
    /\ params.attack = Rat(15, 1) /\ time = Rat(15, 1)
    /\ env_out = Rat(1, 2)

\* the filter state is the one the last filtered-noise step logged, the
\* steps were logged once per sample index in increasing order, and once
\* Accumulation is over there are num_samples of them
FilterFollowsLog ==
    (call = "run" /\ pc # "new") =>
        /\ \A k \in 1..Len(mix_log) : mix_log[k].index = k - 1
        /\ <<filter_prev_l, filter_prev_r>> =
                (IF mix_log = <<>> THEN <<Zero, Zero>>
                 ELSE mix_log[Len(mix_log)].filt)
        /\ pc = "generate_loop" => Len(mix_log) = i
        /\ Accumulated => Len(mix_log) = num_samples

\* a step of the loop of Accumulation
IsAccumulationStep == pc = "generate_loop" /\ i' = i + 1

\* C24: the filter state (both scalars) is written exactly once per sample
\* index during Accumulation, in increasing index order, and only by the
\* filtered-noise step; the reverb pass and the sink write leave it
\* unchanged, so after Accumulation it has been updated exactly num_samples
\* times.
C24_FilterStateFrame ==
    /\ []FilterFollowsLog
    /\ [][call = "run" =>
            /\ IsAccumulationStep => Len(mix_log') = Len(mix_log) + 1
            /\ ~IsAccumulationStep =>
                    UNCHANGED <<filter_prev_l, filter_prev_r, mix_log>>]_vars
C24_Witness ==
    /\ call = "run" /\ pc = "done" /\ result = "Ok"
    /\ num_samples = 2 /\ Len(mix_log) = 2
    /\ filter_prev_l # Zero
    /\ mix_log[1].filt # mix_log[2].filt

\* Setup is over and has built a generator
SetupDone == call = "run" /\ pc \notin {"new", "panicked"}

\* the voice sum logged for every sample index is the one of the present
\* voice bank and parameter record
VoiceBankUsedThroughout ==
    SetupDone =>
        /\ Len(voices) = params.voices
        /\ \A k \in 1..Len(mix_log) :
                mix_log[k].voice
                    = VoiceSum(voices, SampleTime(params, mix_log[k].index))

\* C25: the voice bank and the parameter record are fixed for the whole
\* run: after Setup no step of Accumulation, Reverb or the sink write
\* changes the number of voices, a voice's frequency, LFO rate, modulation
\* depth or pan rate, or a parameter; the same voice values are used for
\* every sample index.
C25_BankAndParamsFixed ==
    /\ []VoiceBankUsedThroughout
    /\ [][/\ call = "run" => params' = params
          /\ SetupDone => voices' = voices]_vars
C25_Witness ==
    /\ call = "run" /\ pc = "done" /\ result = "Ok"
    /\ Len(voices) = 1 /\ Len(mix_log) >= 2
    /\ mix_log[2].voice # <<Zero, Zero>>

\* C26: in every reachable state of a run the left and right filter states
\* are equal: both start at 0 and each filtered-noise step feeds the same
\* draw to both channels, so the filtered-noise contribution is the same on
\* the two channels for every sample.
C26_FilterChannelsEqual ==
    call = "run" =>
        /\ filter_prev_l = filter_prev_r
        /\ \A k \in 1..Len(mix_log) : mix_log[k].filt[1] = mix_log[k].filt[2]
C26_Witness ==
    /\ call = "run" /\ pc = "done" /\ Len(mix_log) >= 2
    /\ filter_prev_l # Zero /\ filter_prev_l = filter_prev_r
    /\ mix_log[1].filt[1] # Zero

\* C27: after any number of filtered-noise steps from the zero state, with
\* noise_level in [0, 1], each filter state s satisfies
\* |s| <= 0.3 * noise_level, throughout the Accumulation loop.
C27_FilterStateBounded ==
    (/\ call = "run"
     /\ RLe(Zero, params.noise_level) /\ RLe(params.noise_level, One)) =>
        LET bound == RMul(Rat(3, 10), params.noise_level)
            Within(s) == RLe(RNeg(bound), s) /\ RLe(s, bound)
        IN  /\ Within(filter_prev_l) /\ Within(filter_prev_r)
            /\ \A k \in 1..Len(mix_log) :
                    Within(mix_log[k].filt[1]) /\ Within(mix_log[k].filt[2])
C27_Witness ==
    /\ call = "run" /\ pc = "generate_loop" /\ Len(mix_log) = 3
    /\ params.noise_level = One
    /\ filter_prev_l = Rat(-813, 10000)

\* C28: whenever the defaults passed to parse_range are ordered
\* (default_min < default_max), the pair it returns for any input string is
\* a usable range for voice construction: min < max, so that generate_voices
\* can draw from it without failing, also when only one component is
\* present or parseable ("0.5" with the defaults 0.05 and 0.2).
C28_ParseRangeUsable ==
    (/\ call = "parse_range" /\ pc = "done"
     /\ RLt(arg.default_min, arg.default_max)) =>
        /\ RLt(ret[1], ret[2])
        /\ ~RangeIsEmpty(ret[1], ret[2])
====
